---- MODULE Spec2Model ----
(***************************************************************************)
(* Stopwatch and progress bar on a 16x2 character LCD, driven by the       *)
(* Timer/Counter2 and Timer/Counter1 overflow interrupts of an ATmega328P  *)
(* (Lab_4-lcd/src/main.c).                                                 *)
(*                                                                         *)
(* Characters are modelled by their codes: '0' = 48, ':' = 58, '.' = 46,   *)
(* ' ' = 32, the filled block = 255, the custom glyphs = 0..3.             *)
(***************************************************************************)
EXTENDS Integers, Sequences, FiniteSets, TLC

(* ------------------------------ bounds --------------------------------- *)

\* Timer/Counter2 handler runs explored from each initial state.
MaxTicksA == 31

\* Timer/Counter1 handler runs explored from each initial state.
MaxTicksB == 7

(* ------------------------- program constants --------------------------- *)

N_CHARS == 6

\* char string[2]
StringSize == 2

\* 16x2 character LCD: 2 rows of 16 columns
LCD_DISP_LENGTH == 16

LCD_LINES == 2

\* the space lcd_init fills the display with
Blank == 32

\* lcd_putc(0xff)
Block == 255

\* uint8_t customChar[N_CHARS*8]: 32 initialised rows, the rest zero
customChar ==
  [k \in 1..(N_CHARS * 8) |->
     IF k <= 8 THEN 16
     ELSE IF k <= 16 THEN 24
     ELSE IF k <= 24 THEN 28
     ELSE IF k <= 32 THEN 30
     ELSE 0]

(* --------------------------- number conversion ------------------------- *)

RECURSIVE Digits(_)
\* decimal digits of a non-negative value, most significant first
Digits(v) ==
  IF v < 10 THEN << 48 + v >>
  ELSE Append(Digits(v \div 10), 48 + (v % 10))

\* itoa(value, string, 10): the digits followed by the terminating NUL
Itoa(v) == Append(Digits(v), 0)

\* Bytes an itoa call stores beyond the end of string[StringSize].  string is
\* an automatic array of the handler, so these bytes fall on the stack slots
\* next to it, where the handler's prologue saved registers of the interrupted
\* idle loop; the static counters are not on the stack.  The text lcd_puts
\* reads back is the one itoa stored: nothing runs in between that writes
\* these slots (calls push below them, handlers do not nest).
Overrun(v) ==
  IF Len(Itoa(v)) > StringSize THEN Len(Itoa(v)) - StringSize ELSE 0

(* ------------------------------ display port --------------------------- *)

\* the display after lcd_init(LCD_DISP_ON): cleared, cursor home
ClearedLcd ==
  [ddram |-> [r \in 0..(LCD_LINES - 1) |-> [c \in 0..(LCD_DISP_LENGTH - 1) |-> Blank]],
   cgram |-> << >>,
   mode  |-> "DDRAM",
   x     |-> 0,
   y     |-> 0,
   log   |-> << >>]

\* lcd_command(1<<LCD_CGRAM): address the glyph pattern memory from row 0
SetCgram(d) == [d EXCEPT !.mode = "CGRAM"]

\* lcd_command(1<<LCD_DDRAM): address the character memory from cell 0
SetDdram(d) == [d EXCEPT !.mode = "DDRAM", !.x = 0, !.y = 0]

\* lcd_gotoxy(x, y): a set-DDRAM-address command
Gotoxy(d, x, y) == [d EXCEPT !.mode = "DDRAM", !.x = x, !.y = y]

\* lcd_data(c) / lcd_putc(c): store one byte at the addressed memory and
\* advance the address
Putc(d, c) ==
  IF d.mode = "CGRAM"
  THEN [d EXCEPT !.cgram = Append(d.cgram, c)]
  ELSE [d EXCEPT
          !.ddram = IF d.x < LCD_DISP_LENGTH
                    THEN [d.ddram EXCEPT ![d.y][d.x] = c]
                    ELSE d.ddram,
          !.x = d.x + 1,
          !.log = Append(d.log, << d.x, d.y, c >>)]

RECURSIVE Puts(_, _)
\* lcd_puts(s): write characters up to the terminating NUL
Puts(d, s) ==
  IF s = << >> \/ Head(s) = 0 THEN d
  ELSE Puts(Putc(d, Head(s)), Tail(s))

RECURSIVE PutN(_, _, _)
\* for (i = 0; i < n; i++) lcd_putc(c);
PutN(d, c, n) ==
  IF n = 0 THEN d ELSE PutN(Putc(d, c), c, n - 1)

(* ----------------------- clock handler: decisions ---------------------- *)

\* faulty variant: the divider fires one overflow early
DividerReached_early(n) == n >= 5

\* faulty variant: the divider fires one overflow late
DividerReached_late(n) == n > 6

\* if (no_of_overflows >= 6)
DividerReached(n) == n >= 6

\* faulty variant: tenths wraps at 9 already
TenthsWrap_early(t) == t > 8

\* faulty variant: tenths wraps only past 10
TenthsWrap_late(t) == t > 10

\* if (tenths>9)
TenthsWrap(t) == t > 9

\* faulty variant: no case 60, the square is taken before the wrap
SecPwrOf_noreset(s) == (s * s) % 65536

\* switch (seconds) { case 0: case 60: secPwr = 0; default: seconds*seconds }
\* (secPwr is a uint16_t)
SecPwrOf(s) ==
  CASE s = 0  -> 0
    [] s = 60 -> 0
    [] OTHER  -> (s * s) % 65536

\* faulty variant: seconds wraps only past 60
SecondsWrap_late(s) == s > 60

\* if (seconds>59)
SecondsWrap(s) == s > 59

\* faulty variant: minutes wraps only past 60
MinutesWrap_late(m) == m > 60

\* if (minutes>59)
MinutesWrap(m) == m > 59

\* if(minutes<60): a '0' goes before the minutes digits
MinutesPad(m) == m < 60

\* faulty variant: the seconds pad test is written like the minutes one
SecondsPad_below60(s) == s < 60

\* if(seconds<10): a '0' goes before the seconds digits
SecondsPad(s) == s < 10

\* uint8_t increment
Inc8(v) == (v + 1) % 256

\* The counting part of one clock update (the body of the `if` of the
\* Timer/Counter2 handler, before the rendering): the new
\* tenths, seconds, minutes and secPwr.
ClockStep(c) ==
  LET t1 == Inc8(c.tenths)
      rolled == TenthsWrap(t1)
      t2 == IF rolled THEN 0 ELSE t1
      s1 == IF rolled THEN Inc8(c.seconds) ELSE c.seconds
      p1 == IF rolled THEN SecPwrOf(s1) ELSE c.secPwr
      carry == SecondsWrap(s1)
      s2 == IF carry THEN 0 ELSE s1
      m1 == IF carry THEN Inc8(c.minutes) ELSE c.minutes
      m2 == IF MinutesWrap(m1) THEN 0 ELSE m1
  IN  [tenths |-> t2, seconds |-> s2, minutes |-> m2, secPwr |-> p1]

\* The rendering part of one clock update: the display after the writes.
\* Every lcd_puts(string) reads back what the preceding itoa stored from
\* string[0] on; a conversion of more than one digit stores past the end of
\* string[StringSize], into the handler's own stack frame, where the bytes
\* stay until lcd_puts has read them (see Overrun).
ClockRender(d, c) ==
  LET d1 == Gotoxy(d, 1, 0)
      d2 == IF MinutesPad(c.minutes)
            THEN Puts(Putc(d1, 48), Itoa(c.minutes))
            ELSE Puts(d1, Itoa(c.minutes))
      d3 == Putc(d2, 58)
      d4 == IF SecondsPad(c.seconds)
            THEN Puts(Putc(d3, 48), Itoa(c.seconds))
            ELSE Puts(d3, Itoa(c.seconds))
      d5 == Putc(d4, 46)
      d6 == Puts(d5, Itoa(c.tenths))
      d7 == Gotoxy(d6, 12, 0)
  IN  Puts(d7, Itoa(c.secPwr))

\* the most bytes any of the four itoa calls of one clock update stores
\* beyond the end of string[StringSize]
ClockOverrun(c) ==
  LET o == { Overrun(c.minutes), Overrun(c.seconds),
             Overrun(c.tenths), Overrun(c.secPwr) }
  IN  CHOOSE v \in o : \A w \in o : w <= v

(* -------------------- progress handler: decisions ---------------------- *)

\* faulty variant: the bar wraps only past 5
BarWrap_late(b) == b > 5

\* if(prgrsBarLgth > 4)
BarWrap(b) == b > 4

\* if(prgrsBarLgth > 4) prgrsBarLgth = 0;  prgrsBarLgth++;
BarStep(b) == Inc8(IF BarWrap(b) THEN 0 ELSE b)

\* faulty variant: the bar is positioned with lcd_gotoxy(0,0)
BarRender_row0(d, b) == PutN(Gotoxy(d, 0, 0), Block, b)

\* faulty variant: the rest of the five cells is overwritten with spaces
BarRender_clearing(d, b) ==
  PutN(PutN(Gotoxy(d, 0, 1), Block, b), Blank, 5 - b)

\* lcd_gotoxy(0,1); for (i = 0; i < prgrsBarLgth; i++) lcd_putc(0xff);
BarRender(d, b) == PutN(Gotoxy(d, 0, 1), Block, b)

(* --------------------------- startup: label ---------------------------- *)

\* lcd_gotoxy(7,1); lcd_putc(0x00); lcd_putc(0x01); lcd_putc(0x02); lcd_putc(0x03);
LabelRender(d) ==
  Putc(Putc(Putc(Putc(Gotoxy(d, 7, 1), 0), 1), 2), 3)

(* ------------------------------- state --------------------------------- *)

VARIABLES
  pc,               \* position of main()
  main_i,           \* the loop variable i of main()
  sreg_I,           \* global interrupt enable (sei, cleared while a handler runs)
  tim1_run,         \* Timer/Counter1 is counting (TIM1_OVF_1SEC)
  toie1,            \* Timer/Counter1 overflow interrupt enabled (TIM1_OVF_ENABLE)
  tim2_run,         \* Timer/Counter2 is counting (TIM2_OVF_16MS)
  toie2,            \* Timer/Counter2 overflow interrupt enabled (TIM2_OVF_ENABLE)
  tov1,             \* Timer/Counter1 overflow pending
  tov2,             \* Timer/Counter2 overflow pending
  active,           \* the handlers entered and not yet returned, innermost first
  no_of_overflows,  \* static uint8_t of ISR(TIMER2_OVF_vect)
  tenths,
  seconds,
  minutes,
  secPwr,           \* static uint16_t
  prgrsBarLgth,     \* static uint8_t of ISR(TIMER1_OVF_vect)
  i,                \* static uint8_t i of ISR(TIMER1_OVF_vect)
  lcd,              \* the display: ddram, cgram, addressing mode, cursor, and
                    \* log: the DDRAM writes <<column, row, byte>> of the
                    \* latest startup step or handler run
  oob,              \* bytes the latest handler run stored past string[]
  nA,               \* completed runs of ISR(TIMER2_OVF_vect) since power-on
  nB,               \* completed runs of ISR(TIMER1_OVF_vect) since power-on
  start,            \* clock updates already done in the initial state
  pre,              \* the static counters on entry of the latest handler run
  last              \* the handler that returned last, "none" before the first

vars ==
  << pc, main_i, sreg_I, tim1_run, toie1, tim2_run, toie2, tov1, tov2, active,
     no_of_overflows, tenths, seconds, minutes, secPwr, prgrsBarLgth, i,
     lcd, oob, nA, nB, start, pre, last >>

hw == << sreg_I, tim1_run, toie1, tim2_run, toie2, tov1, tov2, active >>

clock == << no_of_overflows, tenths, seconds, minutes, secPwr >>

bar == << prgrsBarLgth, i >>

hist == << nA, nB, start, pre, last >>

\* the static counters as a record
Counters ==
  [no_of_overflows |-> no_of_overflows, tenths |-> tenths, seconds |-> seconds,
   minutes |-> minutes, secPwr |-> secPwr, prgrsBarLgth |-> prgrsBarLgth,
   i |-> i]

(* -------------- the states the running program passes through ---------- *)

\* Numbers of completed clock updates at which exploration starts besides
\* power-on: shortly before the tenths, seconds-padding, seconds, minutes-width
\* and minutes wraps of the first lap, and before two wraps of later laps.
StartUpdates == { 5, 95, 585, 595, 5995, 35995, 36595, 71995 }

\* the clock counters after n handler invocations: one update per six
ClockAfter(n) ==
  LET u == n \div 6
      s == (u \div 10) % 60
  IN  [no_of_overflows |-> n % 6, tenths |-> u % 10, seconds |-> s,
       minutes |-> (u \div 600) % 60, secPwr |-> s * s]

\* the progress counter after k handler invocations
BarAfter(k) == IF k = 0 THEN 0 ELSE ((k - 1) % 5) + 1

\* the display after startup: the glyph patterns uploaded, the label drawn
LabelledLcd ==
  LabelRender([ClearedLcd EXCEPT !.cgram = customChar])

\* The display after u clock updates and no progress update.  Cells a shorter
\* text no longer covers keep the last longer one: column 8 of row 0 keeps the
\* tenths digit of 59:59.9 once a lap is complete, the cells after the square
\* keep the digits of 59*59 once a minute is complete.
LcdAfter(u) ==
  IF u = 0 THEN LabelledLcd
  ELSE
    LET row0 == [c \in 0..(LCD_DISP_LENGTH - 1) |->
                   IF c = 8 /\ u >= 36000 THEN 57
                   ELSE IF c >= 12 /\ u >= 600 THEN Digits(59 * 59)[c - 11]
                   ELSE Blank]
        base == [LabelledLcd EXCEPT !.ddram[0] = row0, !.log = << >>]
    IN  [ClockRender(base, ClockAfter(6 * u)) EXCEPT !.log = << >>]

(* ------------------------------- Init ---------------------------------- *)

\* power-on: all statics zero, interrupts disabled, timers stopped
PowerOn ==
  /\ pc = "lcd_init"
  /\ main_i = 0
  /\ sreg_I = FALSE
  /\ tim1_run = FALSE /\ toie1 = FALSE
  /\ tim2_run = FALSE /\ toie2 = FALSE
  /\ tov1 = FALSE /\ tov2 = FALSE
  /\ active = << >>
  /\ no_of_overflows = 0 /\ tenths = 0 /\ seconds = 0 /\ minutes = 0
  /\ secPwr = 0
  /\ prgrsBarLgth = 0 /\ i = 0
  /\ lcd = ClearedLcd
  /\ oob = 0
  /\ nA = 0 /\ nB = 0 /\ start = 0
  /\ pre = Counters
  /\ last = "none"

\* the idle loop after u clock updates, no overflow pending
Running(u) ==
  /\ pc = "loop"
  /\ main_i = N_CHARS * 8
  /\ sreg_I = TRUE
  /\ tim1_run = TRUE /\ toie1 = TRUE
  /\ tim2_run = TRUE /\ toie2 = TRUE
  /\ tov1 = FALSE /\ tov2 = FALSE
  /\ active = << >>
  /\ no_of_overflows = 0
  /\ tenths = ClockAfter(6 * u).tenths
  /\ seconds = ClockAfter(6 * u).seconds
  /\ minutes = ClockAfter(6 * u).minutes
  /\ secPwr = ClockAfter(6 * u).secPwr
  /\ prgrsBarLgth = 0 /\ i = 0
  /\ lcd = LcdAfter(u)
  /\ oob = 0
  /\ nA = 6 * u /\ nB = 0 /\ start = u
  /\ pre = Counters
  /\ last = "none"

Init == PowerOn \/ \E u \in StartUpdates : Running(u)

(* ------------------------------ main() --------------------------------- *)

\* main() runs only while no handler is in progress
MainRuns(at) == pc = at /\ active = << >>

\* faulty variant: sei() is called right after lcd_init, before the glyph
\* upload, the label and the timer setup
Main_lcd_init_sei ==
  /\ MainRuns("lcd_init")
  /\ lcd' = ClearedLcd
  /\ sreg_I' = TRUE
  /\ pc' = "cgram"
  /\ UNCHANGED << main_i, tim1_run, toie1, tim2_run, toie2, tov1, tov2, active,
                  clock, bar, oob, hist >>

\* lcd_init(LCD_DISP_ON);
Main_lcd_init ==
  /\ MainRuns("lcd_init")
  /\ lcd' = ClearedLcd
  /\ pc' = "cgram"
  /\ UNCHANGED << main_i, hw, clock, bar, oob, hist >>

\* lcd_command(1<<LCD_CGRAM);
Main_cgram ==
  /\ MainRuns("cgram")
  /\ lcd' = SetCgram(lcd)
  /\ main_i' = 0
  /\ pc' = "upload"
  /\ UNCHANGED << hw, clock, bar, oob, hist >>

\* for (uint8_t i = 0; i < N_CHARS*8; i++) lcd_data(customChar[i]);
Main_upload ==
  /\ MainRuns("upload")
  /\ IF main_i < N_CHARS * 8
     THEN /\ lcd' = Putc(lcd, customChar[main_i + 1])
          /\ main_i' = main_i + 1
          /\ pc' = pc
     ELSE /\ pc' = "ddram"
          /\ UNCHANGED << lcd, main_i >>
  /\ UNCHANGED << hw, clock, bar, oob, hist >>

\* lcd_command(1<<LCD_DDRAM);
Main_ddram ==
  /\ MainRuns("ddram")
  /\ lcd' = SetDdram(lcd)
  /\ pc' = "label"
  /\ UNCHANGED << main_i, hw, clock, bar, oob, hist >>

\* lcd_gotoxy(7,1); lcd_putc(0x00); ... lcd_putc(0x03);
Main_label ==
  /\ MainRuns("label")
  /\ lcd' = LabelRender([lcd EXCEPT !.log = << >>])
  /\ pc' = "TIM1_OVF_1SEC"
  /\ UNCHANGED << main_i, hw, clock, bar, oob, hist >>

\* TIM1_OVF_1SEC
Main_TIM1_OVF_1SEC ==
  /\ MainRuns("TIM1_OVF_1SEC")
  /\ tim1_run' = TRUE
  /\ pc' = "TIM1_OVF_ENABLE"
  /\ UNCHANGED << main_i, sreg_I, toie1, tim2_run, toie2, tov1, tov2, active,
                  clock, bar, lcd, oob, hist >>

\* TIM1_OVF_ENABLE
Main_TIM1_OVF_ENABLE ==
  /\ MainRuns("TIM1_OVF_ENABLE")
  /\ toie1' = TRUE
  /\ pc' = "TIM2_OVF_16MS"
  /\ UNCHANGED << main_i, sreg_I, tim1_run, tim2_run, toie2, tov1, tov2, active,
                  clock, bar, lcd, oob, hist >>

\* TIM2_OVF_16MS
Main_TIM2_OVF_16MS ==
  /\ MainRuns("TIM2_OVF_16MS")
  /\ tim2_run' = TRUE
  /\ pc' = "TIM2_OVF_ENABLE"
  /\ UNCHANGED << main_i, sreg_I, tim1_run, toie1, toie2, tov1, tov2, active,
                  clock, bar, lcd, oob, hist >>

\* TIM2_OVF_ENABLE
Main_TIM2_OVF_ENABLE ==
  /\ MainRuns("TIM2_OVF_ENABLE")
  /\ toie2' = TRUE
  /\ pc' = "sei"
  /\ UNCHANGED << main_i, sreg_I, tim1_run, toie1, tim2_run, tov1, tov2, active,
                  clock, bar, lcd, oob, hist >>

\* sei();  then while (1) {}
Main_sei ==
  /\ MainRuns("sei")
  /\ sreg_I' = TRUE
  /\ pc' = "loop"
  /\ UNCHANGED << main_i, tim1_run, toie1, tim2_run, toie2, tov1, tov2, active,
                  clock, bar, lcd, oob, hist >>

(* ------------------------- the two tick sources ------------------------ *)

\* the number of runs of handler h entered and not yet returned
InProgress(h) == Cardinality({ k \in DOMAIN active : active[k] = h })

\* Timer/Counter1 overflows: the hardware sets its overflow flag
Timer1Overflow ==
  /\ tim1_run
  /\ ~tov1
  /\ nB + InProgress("TIMER1_OVF") < MaxTicksB
  /\ tov1' = TRUE
  /\ UNCHANGED << pc, main_i, sreg_I, tim1_run, toie1, tim2_run, toie2, tov2,
                  active, clock, bar, lcd, oob, hist >>

\* Timer/Counter2 overflows: the hardware sets its overflow flag
Timer2Overflow ==
  /\ tim2_run
  /\ ~tov2
  /\ (nA - 6 * start) + InProgress("TIMER2_OVF") < MaxTicksA
  /\ tov2' = TRUE
  /\ UNCHANGED << pc, main_i, sreg_I, tim1_run, toie1, tim2_run, toie2, tov1,
                  active, clock, bar, lcd, oob, hist >>

(* ---------------------------- the handlers ----------------------------- *)

\* faulty variant: the handlers are declared ISR_NOBLOCK (or call sei()), so
\* their bodies run with interrupts enabled
HandlerEnables_nested == TRUE

\* ISR(...) without ISR_NOBLOCK: the handler body runs with the global
\* interrupt enable as the hardware left it on entry (cleared)
HandlerEnables == FALSE

\* The hardware enters ISR(TIMER2_OVF_vect): the flag is cleared and
\* interrupts are disabled
Enter_TIMER2_OVF ==
  /\ sreg_I /\ toie2 /\ tov2
  /\ tov2' = FALSE
  /\ sreg_I' = HandlerEnables
  /\ active' = << "TIMER2_OVF" >> \o active
  /\ UNCHANGED << pc, main_i, tim1_run, toie1, tim2_run, toie2, tov1,
                  clock, bar, lcd, oob, hist >>

\* The hardware enters ISR(TIMER1_OVF_vect)
Enter_TIMER1_OVF ==
  /\ sreg_I /\ toie1 /\ tov1
  /\ tov1' = FALSE
  /\ sreg_I' = HandlerEnables
  /\ active' = << "TIMER1_OVF" >> \o active
  /\ UNCHANGED << pc, main_i, tim1_run, toie1, tim2_run, toie2, tov2,
                  clock, bar, lcd, oob, hist >>

\* ISR(TIMER2_OVF_vect), from its first statement to its return
ISR_TIMER2_OVF ==
  /\ active # << >> /\ Head(active) = "TIMER2_OVF"
  /\ LET n1 == Inc8(no_of_overflows)
         c  == ClockStep(Counters)
     IN  IF DividerReached(n1)
         THEN /\ no_of_overflows' = 0
              /\ tenths' = c.tenths
              /\ seconds' = c.seconds
              /\ minutes' = c.minutes
              /\ secPwr' = c.secPwr
              /\ lcd' = ClockRender([lcd EXCEPT !.log = << >>], c)
              /\ oob' = ClockOverrun(c)
         ELSE /\ no_of_overflows' = n1
              /\ lcd' = [lcd EXCEPT !.log = << >>]
              /\ oob' = 0
              /\ UNCHANGED << tenths, seconds, minutes, secPwr >>
  /\ nA' = nA + 1
  /\ pre' = Counters
  /\ last' = "TIMER2_OVF"
  /\ active' = Tail(active)
  /\ sreg_I' = TRUE
  /\ UNCHANGED << pc, main_i, tim1_run, toie1, tim2_run, toie2, tov1, tov2,
                  bar, nB, start >>

\* faulty variant: the loop of the progress handler counts in the clock handler's
\* no_of_overflows instead of a counter of its own
ISR_TIMER1_OVF_shared ==
  /\ active # << >> /\ Head(active) = "TIMER1_OVF"
  /\ prgrsBarLgth' = BarStep(prgrsBarLgth)
  /\ lcd' = BarRender([lcd EXCEPT !.log = << >>], prgrsBarLgth')
  /\ no_of_overflows' = prgrsBarLgth'
  /\ oob' = 0
  /\ nB' = nB + 1
  /\ pre' = Counters
  /\ last' = "TIMER1_OVF"
  /\ active' = Tail(active)
  /\ sreg_I' = TRUE
  /\ UNCHANGED << pc, main_i, tim1_run, toie1, tim2_run, toie2, tov1, tov2,
                  tenths, seconds, minutes, secPwr, i, nA, start >>

\* ISR(TIMER1_OVF_vect), from its first statement to its return
ISR_TIMER1_OVF ==
  /\ active # << >> /\ Head(active) = "TIMER1_OVF"
  /\ prgrsBarLgth' = BarStep(prgrsBarLgth)
  /\ lcd' = BarRender([lcd EXCEPT !.log = << >>], prgrsBarLgth')
  /\ i' = prgrsBarLgth'
  /\ oob' = 0
  /\ nB' = nB + 1
  /\ pre' = Counters
  /\ last' = "TIMER1_OVF"
  /\ active' = Tail(active)
  /\ sreg_I' = TRUE
  /\ UNCHANGED << pc, main_i, tim1_run, toie1, tim2_run, toie2, tov1, tov2,
                  clock, nA, start >>

(* ---------------------------- specification ---------------------------- *)

Next ==
  \/ Main_lcd_init
  \/ Main_cgram
  \/ Main_upload
  \/ Main_ddram
  \/ Main_label
  \/ Main_TIM1_OVF_1SEC
  \/ Main_TIM1_OVF_ENABLE
  \/ Main_TIM2_OVF_16MS
  \/ Main_TIM2_OVF_ENABLE
  \/ Main_sei
  \/ Timer1Overflow
  \/ Timer2Overflow
  \/ Enter_TIMER2_OVF
  \/ Enter_TIMER1_OVF
  \/ ISR_TIMER2_OVF
  \/ ISR_TIMER1_OVF

Spec == Init /\ [][Next]_vars

(* -------------------- one lap of the stopwatch alone ------------------- *)

\* Timer/Counter2 handler runs explored from power-on in SpecLap: one lap of
\* 60 * 60 * 10 updates of six runs each, and one update more
LapTicks == 216006

\* Timer/Counter2 overflows (as Timer2Overflow, for a whole lap)
Timer2OverflowLap ==
  /\ tim2_run
  /\ ~tov2
  /\ nA + InProgress("TIMER2_OVF") < LapTicks
  /\ tov2' = TRUE
  /\ UNCHANGED << pc, main_i, sreg_I, tim1_run, toie1, tim2_run, toie2, tov1,
                  active, clock, bar, lcd, oob, hist >>

\* main() and the Timer/Counter2 handler; Timer/Counter1 never overflows
NextLap ==
  \/ Main_lcd_init
  \/ Main_cgram
  \/ Main_upload
  \/ Main_ddram
  \/ Main_label
  \/ Main_TIM1_OVF_1SEC
  \/ Main_TIM1_OVF_ENABLE
  \/ Main_TIM2_OVF_16MS
  \/ Main_TIM2_OVF_ENABLE
  \/ Main_sei
  \/ Timer2OverflowLap
  \/ Enter_TIMER2_OVF
  \/ ISR_TIMER2_OVF

\* power-on, and the idle loop five updates before the end of the first lap
InitLap == PowerOn \/ Running(36000 - 5)

SpecLap == InitLap /\ [][NextLap]_vars

(* ------------------------------ sanity --------------------------------- *)

\* Between handler runs, the counters and row 0 of the display are those of
\* ClockAfter and LcdAfter for the invocations counted so far.  Under SpecLap
\* this compares the closed forms the initial states are built from with what
\* the handler produces run by run from power-on, along the whole first lap
\* (and along the second with LapTicks doubled).
ModelConsistent ==
  pc = "loop" =>
     /\ << no_of_overflows, tenths, seconds, minutes, secPwr >> =
          LET c == ClockAfter(nA)
          IN  << c.no_of_overflows, c.tenths, c.seconds, c.minutes, c.secPwr >>
     /\ lcd.ddram[0] = LcdAfter(nA \div 6).ddram[0]

(* ------------------------------ properties ----------------------------- *)

\* the latest handler run was one of ISR(TIMER2_OVF_vect)
RanClock == last = "TIMER2_OVF"

\* the latest handler run was the 6th, 12th, 18th, ... of ISR(TIMER2_OVF_vect)
Updated == RanClock /\ nA % 6 = 0

\* the bytes of the latest run's display writes, in order
LogText == [k \in 1..Len(lcd.log) |-> lcd.log[k][3]]

\* the latest run's display writes left of column 12: the clock text
ClockLog == SelectSeq(lcd.log, LAMBDA w : w[1] < 12)

\* the text m:s.t written cell by cell from column 1 of row 0, minutes and
\* seconds as two digits each
ClockCells(m, s, t) ==
  LET txt == << 48 + (m \div 10), 48 + (m % 10), 58,
                48 + (s \div 10), 48 + (s % 10), 46, 48 + t >>
  IN  [k \in 1..7 |-> << k, 0, txt[k] >>]

\* C1: the clock update (counter change and display writes) happens on
\* exactly the 6th, 12th, 18th, ... run of the Timer/Counter2 handler; every
\* other run changes only no_of_overflows and writes nothing to the display.
C1_TickDivider ==
  RanClock =>
    IF nA % 6 = 0
    THEN /\ lcd.log # << >>
         /\ no_of_overflows = 0
         /\ tenths # pre.tenths
    ELSE /\ lcd.log = << >>
         /\ no_of_overflows = pre.no_of_overflows + 1
         /\ tenths = pre.tenths
         /\ seconds = pre.seconds
         /\ minutes = pre.minutes
         /\ secPwr = pre.secPwr
         /\ prgrsBarLgth = pre.prgrsBarLgth
         /\ i = pre.i

\* the 12th run from power-on updated the clock, the 11th had not
C1_Witness ==
  /\ start = 0 /\ nA = 12 /\ RanClock
  /\ pre.no_of_overflows = 5 /\ pre.tenths = 1 /\ tenths = 2
  /\ lcd.log # << >>

\* C2: whenever no clock handler run is half done, secPwr = seconds * seconds:
\* 0 at seconds 0, 3481 at seconds 59, and 0 again in the very update that
\* wraps seconds from 59 through 60 to 0.
C2_SquareInvariant ==
  /\ secPwr = seconds * seconds
  /\ (seconds = 59 => secPwr = 3481)
  /\ (Updated /\ pre.seconds = 59 /\ seconds = 0 => secPwr = 0)

\* an update has just wrapped seconds from 59 (square 3481) to 0 (square 0)
C2_Witness ==
  /\ Updated /\ pre.seconds = 59 /\ pre.secPwr = 3481
  /\ seconds = 0 /\ secPwr = 0

\* C3: a clock update entered with tenths in 0..8 increments tenths by one
\* and leaves seconds, minutes and secPwr as they were.
C3_TenthsStep ==
  (Updated /\ pre.tenths \in 0..8) =>
    /\ tenths = pre.tenths + 1
    /\ seconds = pre.seconds
    /\ minutes = pre.minutes
    /\ secPwr = pre.secPwr

\* an update has just taken tenths from 8 to 9
C3_Witness ==
  /\ Updated /\ pre.tenths = 8 /\ tenths = 9
  /\ seconds = pre.seconds

\* C4: a clock update entered with tenths = 9 sets tenths to 0, advances
\* seconds by one (59 to 0) and sets secPwr to the square of the new seconds.
C4_SecondsStep ==
  (Updated /\ pre.tenths = 9) =>
    /\ tenths = 0
    /\ seconds = (pre.seconds + 1) % 60
    /\ secPwr = seconds * seconds

\* an update has just taken the clock from 58.9 to 59.0, square 3481
C4_Witness ==
  /\ Updated /\ pre.tenths = 9 /\ pre.seconds = 58
  /\ tenths = 0 /\ seconds = 59 /\ secPwr = 3481

\* the clock text of the latest update shows the seconds field as "00"
RenderedSecondsZero ==
  \E k \in 1..Len(LogText) :
    /\ k + 3 <= Len(LogText)
    /\ LogText[k] = 58
    /\ LogText[k + 1] = 48 /\ LogText[k + 2] = 48
    /\ LogText[k + 3] = 46

\* C5: a clock update entered with seconds = 59 and tenths = 9 sets seconds
\* to 0 and increments minutes in that same update (minutes < 59); seconds is
\* never 60 once a handler has returned, and the update renders 00, not 60.
C5_MinutesStep ==
  /\ seconds # 60
  /\ (Updated /\ pre.seconds = 59 /\ pre.tenths = 9) =>
       /\ seconds = 0
       /\ (pre.minutes < 59 => minutes = pre.minutes + 1)
       /\ RenderedSecondsZero

\* an update has just taken the clock from 09:59.9 to 10:00.0
C5_Witness ==
  /\ Updated /\ pre.seconds = 59 /\ pre.tenths = 9 /\ pre.minutes = 9
  /\ minutes = 10 /\ seconds = 0

\* C6: the clock update entered at 59:59.9 returns the clock to 00:00.0 with
\* secPwr 0; nothing is carried further and the progress counters stay.
C6_HourWrap ==
  (Updated /\ pre.minutes = 59 /\ pre.seconds = 59 /\ pre.tenths = 9) =>
    /\ minutes = 0 /\ seconds = 0 /\ tenths = 0 /\ secPwr = 0
    /\ no_of_overflows = 0
    /\ prgrsBarLgth = pre.prgrsBarLgth
    /\ i = pre.i

\* an update has just wrapped 59:59.9 to 00:00.0 while the bar was in use
C6_Witness ==
  /\ Updated /\ pre.minutes = 59 /\ pre.seconds = 59 /\ pre.tenths = 9
  /\ minutes = 0 /\ seconds = 0 /\ tenths = 0
  /\ prgrsBarLgth = 3

\* C7: between handler runs no_of_overflows is in 0..5, tenths in 0..9,
\* seconds in 0..59 and minutes in 0..59, whatever the order of the runs of
\* the two handlers.
C7_Ranges ==
  /\ no_of_overflows \in 0..5
  /\ tenths \in 0..9
  /\ seconds \in 0..59
  /\ minutes \in 0..59

\* every counter at the top of its range, after runs of both handlers
C7_Witness ==
  /\ no_of_overflows = 5 /\ tenths = 9 /\ seconds = 59 /\ minutes = 59
  /\ nA > 6 * start /\ nB > 0
  /\ active = << >>

\* C8: the text a clock update writes from column 1 of row 0 is exactly the
\* seven characters MM:SS.T, minutes and seconds zero-padded to two digits.
C8_ClockText ==
  Updated => ClockLog = ClockCells(minutes, seconds, tenths)

\* C9: the k-th run of the Timer/Counter1 handler sets prgrsBarLgth to
\* ((k-1) mod 5) + 1, which is in 1..5, and writes exactly that many filled
\* blocks from column 0 of row 1.
C9_BarCycle ==
  /\ nB >= 1 => /\ prgrsBarLgth = ((nB - 1) % 5) + 1
                /\ prgrsBarLgth \in 1..5
  /\ last = "TIMER1_OVF" =>
       lcd.log = [k \in 1..prgrsBarLgth |-> << k - 1, 1, Block >>]

\* the 7th run has just drawn a bar of 2 blocks
C9_Witness ==
  /\ nB = 7 /\ last = "TIMER1_OVF" /\ prgrsBarLgth = 2
  /\ pre.prgrsBarLgth = 1
  /\ Len(lcd.log) = 2

\* C10: a run of the Timer/Counter1 handler leaves the clock counters alone,
\* a run of the Timer/Counter2 handler leaves the progress counters alone, and
\* in every interleaving each machine's counters are those its own number of
\* runs gives.
C10_Independence ==
  /\ last = "TIMER1_OVF" =>
       /\ no_of_overflows = pre.no_of_overflows
       /\ tenths = pre.tenths
       /\ seconds = pre.seconds
       /\ minutes = pre.minutes
       /\ secPwr = pre.secPwr
  /\ last = "TIMER2_OVF" =>
       /\ prgrsBarLgth = pre.prgrsBarLgth
       /\ i = pre.i
  /\ no_of_overflows = ClockAfter(nA).no_of_overflows
  /\ tenths = ClockAfter(nA).tenths
  /\ seconds = ClockAfter(nA).seconds
  /\ minutes = ClockAfter(nA).minutes
  /\ secPwr = ClockAfter(nA).secPwr
  /\ prgrsBarLgth = BarAfter(nB)

\* both overflows are pending at once again, right after a clock update that
\* followed runs of the progress handler
C10_Witness ==
  /\ tov1 /\ tov2 /\ sreg_I
  /\ Updated /\ nA > 6 * start
  /\ nB >= 2

\* the static label is on the display: glyphs 0..3 in columns 7..10 of row 1
LabelDrawn ==
  \A c \in 7..10 : lcd.ddram[1][c] = c - 7

\* C11: no handler runs, and interrupts are not enabled, before startup has
\* initialised the display, uploaded every glyph pattern row, switched the
\* addressing back to DDRAM and drawn the label; sei() is the last startup
\* step before the idle loop.
C11_StartupOrder ==
  (sreg_I \/ active # << >> \/ last # "none") =>
    /\ pc = "loop"
    /\ lcd.mode = "DDRAM"
    /\ lcd.cgram = customChar
    /\ LabelDrawn

\* after a startup from power-on, a first handler has been entered
C11_Witness ==
  /\ start = 0 /\ pc = "loop" /\ last = "none"
  /\ active = << "TIMER2_OVF" >>
  /\ lcd.cgram = customChar /\ LabelDrawn

\* C12: at most one handler activation is in progress at any time, and while
\* one is in progress interrupts are disabled, so an overflow that becomes
\* pending meanwhile is served only after the running handler has returned.
C12_MutualExclusion ==
  /\ Len(active) <= 1
  /\ active # << >> => ~sreg_I

\* a handler is running while both overflows are pending and deferred
C12_Witness ==
  /\ active = << "TIMER1_OVF" >>
  /\ tov1 /\ tov2
  /\ last = "TIMER2_OVF"

\* C13: every cell the clock handler writes is in row 0, every cell the
\* progress handler writes is in row 1, columns 0..4, so no cell is written by
\* both; neither writes the label cells (row 1, columns 7..10), which keep
\* the glyphs drawn at startup.
C13_DisjointRegions ==
  /\ last = "TIMER2_OVF" =>
       \A k \in 1..Len(lcd.log) :
         /\ lcd.log[k][2] = 0
         /\ lcd.log[k][1] \in 0..(LCD_DISP_LENGTH - 1)
  /\ last = "TIMER1_OVF" =>
       \A k \in 1..Len(lcd.log) :
         /\ lcd.log[k][2] = 1
         /\ lcd.log[k][1] \in 0..4
  /\ pc = "loop" => LabelDrawn

\* a full bar has just been drawn under a clock text, the label is intact
C13_Witness ==
  /\ last = "TIMER1_OVF" /\ Len(lcd.log) = 5
  /\ nA >= 6 * start + 6
  /\ lcd.ddram[0][1] = 48 /\ lcd.ddram[0][12] # Blank
  /\ lcd.ddram[1][4] = Block
  /\ LabelDrawn

\* the number of progress cells drawn so far
Filled == IF nB < 5 THEN nB ELSE 5

\* C14: the progress handler writes nothing but the filled block, so a cell
\* of row 1, columns 0..4, once filled stays filled: after k runs the first
\* min(k, 5) cells are filled, and from the 5th run on all five are, whatever
\* prgrsBarLgth is.
C14_NonClearing ==
  /\ last = "TIMER1_OVF" =>
       \A k \in 1..Len(lcd.log) : lcd.log[k][3] = Block
  /\ \A c \in 0..4 : c < Filled => lcd.ddram[1][c] = Block
  /\ nB >= 5 => \A c \in 0..4 : lcd.ddram[1][c] = Block

\* a bar of length 2 has been drawn after a bar of length 5: three stale cells
C14_Witness ==
  /\ last = "TIMER1_OVF" /\ nB = 7 /\ prgrsBarLgth = 2
  /\ Len(lcd.log) = 2
  /\ \A c \in 2..4 : lcd.ddram[1][c] = Block

C16_SecondsTenthsFields ==
  Updated =>
    LET n == Len(ClockLog)
    IN  /\ n >= 6
        /\ ClockLog[n - 4][3] = 58
        /\ ClockLog[n - 3][3] = 48 + (seconds \div 10)
        /\ ClockLog[n - 2][3] = 48 + (seconds % 10)
        /\ ClockLog[n - 1][3] = 46
        /\ ClockLog[n][3] = 48 + tenths
        /\ (ClockLog[n - 3][3] = 48) <=> (seconds < 10)
        /\ \A k \in (n - 4)..n : ClockLog[k][1] = ClockLog[n][1] - (n - k)
        /\ \A k \in 1..(n - 5) : ClockLog[k][3] # 58 /\ ClockLog[k][3] # 46

\* an update has just taken seconds from 9 to 10: no '0' is put in front
C16_Witness ==
  /\ Updated /\ pre.seconds = 9 /\ seconds = 10 /\ tenths = 0
  /\ LET n == Len(ClockLog)
     IN  ClockLog[n - 3][3] = 49 /\ ClockLog[n - 2][3] = 48

\* C17: between the CGRAM command and the DDRAM command startup writes
\* exactly 4 glyphs x 8 rows = 32 pattern rows to the glyph memory, each a
\* 5-bit value, and nothing else (stated of the runs that start at power-on).
C17_UploadSize ==
  start = 0 =>
    /\ Len(lcd.cgram) <= 4 * 8
    /\ \A k \in 1..Len(lcd.cgram) : lcd.cgram[k] \in 0..31
    /\ pc \notin { "lcd_init", "cgram", "upload" } => Len(lcd.cgram) = 4 * 8

\* C18: every decimal string an itoa call of the clock handler produces fits,
\* with its terminating NUL, in string[2]: no run stores past its end.
C18_BufferBound == oob = 0

\* the four cells of row 0 from column 12 that show v and nothing else
SquareCells(v) ==
  [c \in 12..15 |-> IF c - 11 <= Len(Digits(v)) THEN Digits(v)[c - 11] ELSE Blank]

\* C19: after every clock update the cells of row 0 from column 12 to 15 read
\* as the decimal digits of secPwr followed only by blank cells: no digit of
\* an earlier, longer value stays visible.
C19_SquareField ==
  Updated => \A c \in 12..15 : lcd.ddram[0][c] = SquareCells(secPwr)[c]

\* the reading of the stopwatch in tenths of a second
Reading == minutes * 600 + seconds * 10 + tenths

\* C20: after n runs of the Timer/Counter2 handler from power-on the reading
\* minutes*600 + seconds*10 + tenths is floor(n/6) mod 36000 and
\* no_of_overflows is n mod 6: the stopwatch steps through 00:00.0 .. 59:59.9
\* in order and is all zero again after exactly 216000 runs, not before.
C20_SingleCounter ==
  /\ Reading = (nA \div 6) % 36000
  /\ no_of_overflows = nA % 6
  /\ tenths \in 0..9 /\ seconds \in 0..59 /\ minutes \in 0..59
  /\ (Reading = 0 /\ no_of_overflows = 0) => nA % 216000 = 0

\* the 216000th run has just returned the stopwatch to all zero
C20_Witness ==
  /\ nA = 216000 /\ last = "TIMER2_OVF"
  /\ pre.minutes = 59 /\ pre.seconds = 59 /\ pre.tenths = 9
  /\ pre.no_of_overflows = 5
  /\ minutes = 0 /\ seconds = 0 /\ tenths = 0 /\ no_of_overflows = 0

====
